---- MODULE Spec2Model ----
(***************************************************************************)
(* Model of the operation catalogs of cnn/operations.py (OPS, DARTS_OPS)   *)
(* and of the modules they build.  One edge of a cell is followed: the     *)
(* catalog is selected, an operation key is looked up, the constructor is  *)
(* called with (C_in, C_out, stride, affine), and the instance is applied  *)
(* to input tensors.  Tensors carry their shape (N, C, H, W) and a class   *)
(* of value for each element; the shape algebra of torch.nn layers         *)
(* (Conv2d, BatchNorm2d, AvgPool2d, MaxPool2d) is followed layer by layer. *)
(***************************************************************************)
EXTENDS Integers, Sequences, FiniteSets, TLC

\* ------------------------------------------------------------------ bounds
MaxN == 2
MaxC == 3
MaxH == 3
MaxStride == 3

Batches  == 1..MaxN
Channels == 1..MaxC
Sizes    == 1..MaxH
Strides  == 0..MaxStride

\* ------------------------------------------------------------- optional args
\* Python's None and a present value of an optional argument.
None == << >>
Some(v) == << v >>

\* ------------------------------------------------------------------ tensors
\* Classes of float values: a finite number, +-infinity, NaN, (+-)zero, and
\* "any" for an element whose value depends on learned weights.
Val == {"fin", "inf", "nan", "zero", "any"}

Positions(shape) ==
  (0..(shape[1] - 1)) \X (0..(shape[2] - 1)) \X (0..(shape[3] - 1)) \X (0..(shape[4] - 1))

Tensor(shape, f) == [shape |-> shape, data |-> f]

NoTensor == Tensor(<<0, 0, 0, 0>>, [p \in Positions(<<0, 0, 0, 0>>) |-> "any"])

\* The result of a layer whose values depend on its weights.
Computed(shape) == Tensor(shape, [p \in Positions(shape) |-> "any"])

\* An outcome of a call: err = "" and a value, or the exception raised.
Ok(t) == [err |-> "", t |-> t]
Raise(e) == [err |-> e, t |-> NoTensor]

\* ------------------------------------------------------------- torch layers
Layer(op, cin, cout, k, s, p, d, groups, affine, inplace) ==
  [op |-> op, cin |-> cin, cout |-> cout, k |-> k, s |-> s, p |-> p,
   d |-> d, groups |-> groups, affine |-> affine, inplace |-> inplace]

\* Mutant: nn.ReLU(inplace=True).
ReLUInplace == Layer("ReLU", 0, 0, <<0, 0>>, <<0, 0>>, <<0, 0>>, 0, 0, FALSE, TRUE)

\* nn.ReLU(inplace=False)
ReLU == Layer("ReLU", 0, 0, <<0, 0>>, <<0, 0>>, <<0, 0>>, 0, 0, FALSE, FALSE)

Conv2d(cin, cout, k, s, p, d, groups) ==
  Layer("Conv2d", cin, cout, k, s, p, d, groups, FALSE, FALSE)

BatchNorm2d(c, affine) ==
  Layer("BatchNorm2d", c, c, <<0, 0>>, <<0, 0>>, <<0, 0>>, 0, 0, affine, FALSE)

AvgPool2d(k, s, p) ==
  Layer("AvgPool2d", 0, 0, <<k, k>>, <<s, s>>, <<p, p>>, 1, 0, FALSE, FALSE)

MaxPool2d(k, s, p) ==
  Layer("MaxPool2d", 0, 0, <<k, k>>, <<s, s>>, <<p, p>>, 1, 0, FALSE, FALSE)

\* Output length of a convolution or pooling window along one axis.
WindowOut(h, k, s, p, d) == ((h + 2 * p - d * (k - 1) - 1) \div s) + 1

\* A window fits when the padded input is at least the dilated kernel.
WindowFits(h, k, p, d) == h + 2 * p >= d * (k - 1) + 1

LayerForward(l, t) ==
  LET sh == t.shape IN
  CASE l.op = "ReLU" -> Ok(Computed(sh))
    [] l.op = "BatchNorm2d" ->
         IF sh[2] # l.cin THEN Raise("RuntimeError") ELSE Ok(Computed(sh))
    [] l.op = "Conv2d" ->
         IF sh[2] # l.cin \/ l.s[1] < 1 \/ l.s[2] < 1
            \/ ~WindowFits(sh[3], l.k[1], l.p[1], l.d)
            \/ ~WindowFits(sh[4], l.k[2], l.p[2], l.d)
         THEN Raise("RuntimeError")
         ELSE Ok(Computed(<<sh[1], l.cout,
                            WindowOut(sh[3], l.k[1], l.s[1], l.p[1], l.d),
                            WindowOut(sh[4], l.k[2], l.s[2], l.p[2], l.d)>>))
    [] OTHER ->
         IF l.s[1] < 1 \/ l.s[2] < 1
            \/ ~WindowFits(sh[3], l.k[1], l.p[1], l.d)
            \/ ~WindowFits(sh[4], l.k[2], l.p[2], l.d)
         THEN Raise("RuntimeError")
         ELSE Ok(Computed(<<sh[1], sh[2],
                            WindowOut(sh[3], l.k[1], l.s[1], l.p[1], l.d),
                            WindowOut(sh[4], l.k[2], l.s[2], l.p[2], l.d)>>))

\* nn.Sequential: the layers in order, the first exception ends the call.
RECURSIVE SequentialForward(_, _)
SequentialForward(layers, t) ==
  IF layers = << >> THEN Ok(t)
  ELSE LET r == LayerForward(Head(layers), t) IN
       IF r.err # "" THEN r ELSE SequentialForward(Tail(layers), r.t)

\* ------------------------------------------------------------------ modules
\* An nn.Module instance: its class, the stride it stores (Zero) and the
\* layers it owns, in the order the constructor creates them.
Module(kind, stride, layers) == [kind |-> kind, stride |-> stride, layers |-> layers]

NoOp == Module("", 0, << >>)

\* The outcome of a constructor call.
Built(m) == [err |-> "", op |-> m]
CtorRaise(e) == [err |-> e, op |-> NoOp]

ConvBNReLU(C_in, C_out, kernel_size, stride, padding, affine) ==
  Built(Module("ConvBNReLU", stride, <<
    Conv2d(C_in, C_out, <<kernel_size, kernel_size>>, <<stride, stride>>,
           <<padding, padding>>, 1, 1),
    BatchNorm2d(C_out, affine),
    ReLU >>))

DilConv(C_in, C_out, kernel_size, stride, padding, dilation, affine) ==
  Built(Module("DilConv", stride, <<
    ReLU,
    Conv2d(C_in, C_in, <<kernel_size, kernel_size>>, <<stride, stride>>,
           <<padding, padding>>, dilation, C_in),
    Conv2d(C_in, C_out, <<1, 1>>, <<1, 1>>, <<0, 0>>, 1, 1),
    BatchNorm2d(C_out, affine) >>))

\* Mutant: a given C_mid is ignored.
SepConvMidIgnoresFixed(C_out, C_mid_mult, C_mid) == C_out * C_mid_mult

\* c_mid: C_mid when given, else int(C_out * C_mid_mult); the catalogs pass
\* integer multipliers, whose product int() leaves as it is.
SepConvMid(C_out, C_mid_mult, C_mid) ==
  IF C_mid # None THEN C_mid[1] ELSE C_out * C_mid_mult

\* Mutant: the second depthwise conv strides as well.
SepConvStridesTwice(C_in, C_out, kernel_size, stride, padding, dilation, affine, C_mid_mult, C_mid) ==
  LET c_mid == SepConvMid(C_out, C_mid_mult, C_mid) IN
  Built(Module("SepConv", stride, <<
    ReLU,
    Conv2d(C_in, C_in, <<kernel_size, kernel_size>>, <<stride, stride>>,
           <<padding, padding>>, dilation, C_in),
    Conv2d(C_in, c_mid, <<1, 1>>, <<1, 1>>, <<0, 0>>, 1, 1),
    BatchNorm2d(c_mid, affine),
    ReLU,
    Conv2d(c_mid, c_mid, <<kernel_size, kernel_size>>, <<stride, stride>>, <<1, 1>>, 1, c_mid),
    Conv2d(c_mid, C_out, <<1, 1>>, <<1, 1>>, <<0, 0>>, 1, 1),
    BatchNorm2d(C_out, affine) >>))

SepConv(C_in, C_out, kernel_size, stride, padding, dilation, affine, C_mid_mult, C_mid) ==
  LET c_mid == SepConvMid(C_out, C_mid_mult, C_mid) IN
  Built(Module("SepConv", stride, <<
    ReLU,
    Conv2d(C_in, C_in, <<kernel_size, kernel_size>>, <<stride, stride>>,
           <<padding, padding>>, dilation, C_in),
    Conv2d(C_in, c_mid, <<1, 1>>, <<1, 1>>, <<0, 0>>, 1, 1),
    BatchNorm2d(c_mid, affine),
    ReLU,
    Conv2d(c_mid, c_mid, <<kernel_size, kernel_size>>, <<1, 1>>, <<1, 1>>, 1, c_mid),
    Conv2d(c_mid, C_out, <<1, 1>>, <<1, 1>>, <<0, 0>>, 1, 1),
    BatchNorm2d(C_out, affine) >>))

Identity == Built(Module("Identity", 0, << >>))

Zero(stride) == Built(Module("Zero", stride, << >>))

\* Mutant: the evenness assertion is left out.
FactorizedReduceUnchecked(C_in, C_out, kernel_size, stride, padding, affine) ==
  Built(Module("FactorizedReduce", stride, <<
    ReLU,
    Conv2d(C_in, C_out \div 2, <<kernel_size, kernel_size>>, <<stride, stride>>,
           <<padding, padding>>, 1, 1),
    Conv2d(C_in, C_out \div 2, <<kernel_size, kernel_size>>, <<stride, stride>>,
           <<padding, padding>>, 1, 1),
    BatchNorm2d(C_out, affine) >>))

FactorizedReduce(C_in, C_out, kernel_size, stride, padding, affine) ==
  IF C_out % 2 # 0 THEN CtorRaise("AssertionError")
  ELSE Built(Module("FactorizedReduce", stride, <<
    ReLU,
    Conv2d(C_in, C_out \div 2, <<kernel_size, kernel_size>>, <<stride, stride>>,
           <<padding, padding>>, 1, 1),
    Conv2d(C_in, C_out \div 2, <<kernel_size, kernel_size>>, <<stride, stride>>,
           <<padding, padding>>, 1, 1),
    BatchNorm2d(C_out, affine) >>))

\* ------------------------------------------------------------------ forward
IdentityForward(x) == Ok(x)

\* Mutant: the slice starts at offset step - 1 instead of 0.
SliceIdxOffset(len, step) ==
  SelectSeq([k \in 1..len |-> k - 1], LAMBDA i : i % step = step - 1)

\* The indices a Python slice [::step] selects from 0..len-1.
SliceIdx(len, step) ==
  SelectSeq([k \in 1..len |-> k - 1], LAMBDA i : i % step = 0)

\* x[:, :, ::step, ::step]
StrideSlice(x, step) ==
  LET rows == SliceIdx(x.shape[3], step)
      cols == SliceIdx(x.shape[4], step)
      shape == <<x.shape[1], x.shape[2], Len(rows), Len(cols)>>
  IN Tensor(shape, [p \in Positions(shape) |->
                      x.data[<<p[1], p[2], rows[p[3] + 1], cols[p[4] + 1]>>]])

\* One element of x.mul(0.): IEEE 754 gives NaN for inf * 0 and NaN * 0.
MulZero(v) ==
  CASE v \in {"inf", "nan"} -> "nan"
    [] v = "any" -> "any"
    [] OTHER -> "zero"

Mul0(x) == Tensor(x.shape, [p \in Positions(x.shape) |-> MulZero(x.data[p])])

ZeroForward(m, x) ==
  IF m.stride = 1 THEN Ok(Mul0(x))
  ELSE IF m.stride < 1 THEN Raise("ValueError")
  ELSE Ok(Mul0(StrideSlice(x, m.stride)))

\* nn.ConstantPad2d((0, 1, 0, 1), 0): one column of zeros right, one row below.
Pad(t) ==
  LET shape == <<t.shape[1], t.shape[2], t.shape[3] + 1, t.shape[4] + 1>> IN
  Tensor(shape, [p \in Positions(shape) |->
                   IF p[3] < t.shape[3] /\ p[4] < t.shape[4] THEN t.data[p] ELSE "zero"])

\* Mutant: the last row and column are cut, y[:, :, :-1, :-1].
CropLast(t) ==
  LET shape == <<t.shape[1], t.shape[2], t.shape[3] - 1, t.shape[4] - 1>> IN
  Tensor(shape, [p \in Positions(shape) |-> t.data[p]])

\* y[:, :, 1:, 1:]
Crop(t) ==
  LET shape == <<t.shape[1], t.shape[2], t.shape[3] - 1, t.shape[4] - 1>> IN
  Tensor(shape, [p \in Positions(shape) |->
                   t.data[<<p[1], p[2], p[3] + 1, p[4] + 1>>]])

\* The elements of its input that each output element of conv layer l is
\* computed from; a window position in the conv's own padding reads a zero.
ConvReads(l, t) ==
  LET sh == t.shape
      shape == <<sh[1], l.cout,
                 WindowOut(sh[3], l.k[1], l.s[1], l.p[1], l.d),
                 WindowOut(sh[4], l.k[2], l.s[2], l.p[2], l.d)>>
      per == l.cin \div l.groups
      first(co) == (co \div (l.cout \div l.groups)) * per
  IN Tensor(shape, [p \in Positions(shape) |->
       { LET r == l.s[1] * p[3] - l.p[1] + l.d * w[2]
             q == l.s[2] * p[4] - l.p[2] + l.d * w[3]
         IN IF r \in 0..(sh[3] - 1) /\ q \in 0..(sh[4] - 1)
            THEN t.data[<<p[1], w[1], r, q>>] ELSE "zero" :
         w \in (first(p[2])..(first(p[2]) + per - 1))
               \X (0..(l.k[1] - 1)) \X (0..(l.k[2] - 1)) }])

\* torch.cat([a, b], dim=1)
Cat(a, b) ==
  IF a.shape[1] # b.shape[1] \/ a.shape[3] # b.shape[3] \/ a.shape[4] # b.shape[4]
  THEN Raise("RuntimeError")
  ELSE Ok(Computed(<<a.shape[1], a.shape[2] + b.shape[2], a.shape[3], a.shape[4]>>))

FactorizedReduceForward(m, x0) ==
  LET x == LayerForward(m.layers[1], x0).t
      y == Pad(x)
      a == LayerForward(m.layers[2], x)
      b == LayerForward(m.layers[3], Crop(y))
  IN IF a.err # "" THEN a
     ELSE IF b.err # "" THEN b
     ELSE LET out == Cat(a.t, b.t) IN
          IF out.err # "" THEN out ELSE LayerForward(m.layers[4], out.t)

Forward(m, x) ==
  CASE m.kind = "Identity" -> IdentityForward(x)
    [] m.kind = "Zero" -> ZeroForward(m, x)
    [] m.kind = "FactorizedReduce" -> FactorizedReduceForward(m, x)
    [] OTHER -> SequentialForward(m.layers, x)

\* -------------------------------------------------- side effects of forward
\* The layers of nn.Sequential whose forward is entered: every layer up to
\* and including the first that raises.
RECURSIVE SequentialReached(_, _, _)
SequentialReached(layers, t, i) ==
  IF layers = << >> THEN {}
  ELSE LET r == LayerForward(Head(layers), t) IN
       {i} \cup (IF r.err # "" THEN {}
                 ELSE SequentialReached(Tail(layers), r.t, i + 1))

\* The layers of instance m whose forward is entered on input t.
Reached(m, t) ==
  CASE m.kind \in {"Identity", "Zero"} -> {}
    [] m.kind = "FactorizedReduce" ->
         LET x == LayerForward(m.layers[1], t).t
             a == LayerForward(m.layers[2], x)
             b == LayerForward(m.layers[3], Crop(Pad(x)))
         IN {1, 2} \cup (IF a.err = "" THEN {3} ELSE {})
                   \cup (IF a.err = "" /\ b.err = "" /\ Cat(a.t, b.t).err = ""
                         THEN {4} ELSE {})
    [] OTHER -> SequentialReached(m.layers, t, 1)

\* Mutant: the running statistics are updated in evaluation mode as well.
TrackedAfterAnyMode(m, t, mode, stats) ==
  [i \in 1..Len(m.layers) |->
     IF m.layers[i].op = "BatchNorm2d" /\ i \in Reached(m, t)
     THEN stats[i] + 1 ELSE stats[i]]

\* nn.BatchNorm2d keeps running statistics (track_running_stats defaults to
\* True): a forward in training mode counts the batch in num_batches_tracked
\* and folds its mean and variance into running_mean and running_var; a
\* forward in evaluation mode reads them. stats[i] counts the updates of
\* layer i.
TrackedAfter(m, t, mode, stats) ==
  [i \in 1..Len(m.layers) |->
     IF mode /\ m.layers[i].op = "BatchNorm2d" /\ i \in Reached(m, t)
     THEN stats[i] + 1 ELSE stats[i]]

\* The caller's tensor after nn.Sequential ran on it: a layer writes its input
\* only when it is an in-place ReLU, and what it returns is then that tensor.
RECURSIVE SequentialInputAfter(_, _)
SequentialInputAfter(layers, t) ==
  IF layers = << >> THEN t
  ELSE IF Head(layers).op = "ReLU" /\ Head(layers).inplace
       THEN SequentialInputAfter(Tail(layers), LayerForward(Head(layers), t).t)
       ELSE t

\* The caller's tensor after forward: Identity returns it untouched, Zero
\* slices a view and multiplies into a new tensor (mul, not mul_), and
\* FactorizedReduce pads, crops and convolves what its ReLU returned.
InputAfter(m, t) ==
  CASE m.kind \in {"Identity", "Zero"} -> t
    [] m.kind = "FactorizedReduce" -> SequentialInputAfter(<< m.layers[1] >>, t)
    [] OTHER -> SequentialInputAfter(m.layers, t)

\* ----------------------------------------------------------------- catalogs
\* Mutant: the last choke entry is missing from the catalog.
OPSKeysMissing ==
  {"none", "avg_pool_3x3", "max_pool_3x3", "skip_connect",
   "sep_conv_3x3", "sep_conv_5x5", "sep_conv_7x7", "dil_conv_3x3", "dil_conv_5x5",
   "conv_7x1_1x7", "flood_conv_3x3", "dil_flood_conv_3x3", "choke_conv_3x3"}

OPSKeys ==
  {"none", "avg_pool_3x3", "max_pool_3x3", "skip_connect",
   "sep_conv_3x3", "sep_conv_5x5", "sep_conv_7x7", "dil_conv_3x3", "dil_conv_5x5",
   "conv_7x1_1x7", "flood_conv_3x3", "dil_flood_conv_3x3",
   "choke_conv_3x3", "dil_choke_conv_3x3"}

DARTS_OPSKeys ==
  {"none", "avg_pool_3x3", "max_pool_3x3", "skip_connect",
   "sep_conv_3x3", "sep_conv_5x5", "sep_conv_7x7", "dil_conv_3x3", "dil_conv_5x5",
   "conv_7x1_1x7", "nor_conv_3x3", "nor_conv_5x5", "nor_conv_7x7"}

\* The absolute mid-channel count of the choke entries.
ChokeMid == 32

\* C_mid_mult of the flood entries, and its default.
FloodMult == 4
DefaultMult == 1

\* Mutant: the projection to C_out is left out (the legacy catalog's entry).
PoolProjectPoolOnly(pool, C_in, C_out, stride, affine) ==
  Built(Module(pool.op, stride, << pool >>))

\* Mutant: the projection is built whether or not the channel counts differ.
PoolProjectAlways(pool, C_in, C_out, stride, affine) ==
  Built(Module("Sequential", stride, <<
    pool,
    Conv2d(C_in, C_out, <<1, 1>>, <<1, 1>>, <<0, 0>>, 1, 1),
    BatchNorm2d(C_out, affine) >>))

PoolProject(pool, C_in, C_out, stride, affine) ==
  IF C_in = C_out THEN Built(Module(pool.op, stride, << pool >>))
  ELSE Built(Module("Sequential", stride, <<
         pool,
         Conv2d(C_in, C_out, <<1, 1>>, <<1, 1>>, <<0, 0>>, 1, 1),
         BatchNorm2d(C_out, affine) >>))

Conv7x1_1x7(C_in, C_out, stride, affine) ==
  Built(Module("Sequential", stride, <<
    ReLU,
    Conv2d(C_in, C_in, <<1, 7>>, <<1, stride>>, <<0, 3>>, 1, 1),
    Conv2d(C_in, C_out, <<7, 1>>, <<stride, 1>>, <<3, 0>>, 1, 1),
    BatchNorm2d(C_out, affine) >>))

OPS(key, C_in, C_out, stride, affine) ==
  CASE key = "none" -> Zero(stride)
    [] key = "avg_pool_3x3" -> PoolProject(AvgPool2d(3, stride, 1), C_in, C_out, stride, affine)
    [] key = "max_pool_3x3" -> PoolProject(MaxPool2d(3, stride, 1), C_in, C_out, stride, affine)
    [] key = "skip_connect" ->
         IF stride = 1 THEN Identity
         ELSE FactorizedReduce(C_in, C_out, 1, stride, 0, affine)
    [] key = "sep_conv_3x3" -> SepConv(C_in, C_out, 3, stride, 1, 1, affine, DefaultMult, None)
    [] key = "sep_conv_5x5" -> SepConv(C_in, C_out, 5, stride, 2, 1, affine, DefaultMult, None)
    [] key = "sep_conv_7x7" -> SepConv(C_in, C_out, 7, stride, 3, 1, affine, DefaultMult, None)
    [] key = "dil_conv_3x3" -> SepConv(C_in, C_out, 3, stride, 2, 2, affine, DefaultMult, None)
    [] key = "dil_conv_5x5" -> SepConv(C_in, C_out, 5, stride, 4, 2, affine, DefaultMult, None)
    [] key = "conv_7x1_1x7" -> Conv7x1_1x7(C_in, C_out, stride, affine)
    [] key = "flood_conv_3x3" -> SepConv(C_in, C_out, 3, stride, 1, 1, affine, FloodMult, None)
    [] key = "dil_flood_conv_3x3" -> SepConv(C_in, C_out, 3, stride, 2, 2, affine, FloodMult, None)
    [] key = "choke_conv_3x3" ->
         SepConv(C_in, C_out, 3, stride, 1, 1, affine, DefaultMult, Some(ChokeMid))
    [] key = "dil_choke_conv_3x3" ->
         SepConv(C_in, C_out, 3, stride, 2, 2, affine, DefaultMult, Some(ChokeMid))

\* The legacy entries take (C, C_out, stride, affine) and never read C_out.
DARTS_OPS(key, C, C_out, stride, affine) ==
  CASE key = "none" -> Zero(stride)
    [] key = "avg_pool_3x3" -> Built(Module("AvgPool2d", stride, << AvgPool2d(3, stride, 1) >>))
    [] key = "max_pool_3x3" -> Built(Module("MaxPool2d", stride, << MaxPool2d(3, stride, 1) >>))
    [] key = "skip_connect" ->
         IF stride = 1 THEN Identity
         ELSE FactorizedReduce(C, C, 1, 2, 0, affine)
    [] key = "sep_conv_3x3" -> SepConv(C, C, 3, stride, 1, 1, affine, DefaultMult, None)
    [] key = "sep_conv_5x5" -> SepConv(C, C, 5, stride, 2, 1, affine, DefaultMult, None)
    [] key = "sep_conv_7x7" -> SepConv(C, C, 7, stride, 3, 1, affine, DefaultMult, None)
    [] key = "dil_conv_3x3" -> DilConv(C, C, 3, stride, 2, 2, affine)
    [] key = "dil_conv_5x5" -> DilConv(C, C, 5, stride, 4, 2, affine)
    [] key = "conv_7x1_1x7" -> Conv7x1_1x7(C, C, stride, affine)
    [] key = "nor_conv_3x3" -> ConvBNReLU(C, C, 3, stride, 1, affine)
    [] key = "nor_conv_5x5" -> ConvBNReLU(C, C, 5, stride, 2, affine)
    [] key = "nor_conv_7x7" -> ConvBNReLU(C, C, 7, stride, 3, affine)

Catalogs == {"OPS", "DARTS_OPS"}

KeysOf(cat) == IF cat = "OPS" THEN OPSKeys ELSE DARTS_OPSKeys

\* op_dict[key]: the constructor bound to the key, or KeyError.
Lookup(cat, k) == IF k \in KeysOf(cat) THEN "" ELSE "KeyError"

\* op_dict[key](C_in, C_out, stride, affine)
Construct(cat, k, C_in, C_out, stride, affine) ==
  IF cat = "OPS" THEN OPS(k, C_in, C_out, stride, affine)
  ELSE DARTS_OPS(k, C_in, C_out, stride, affine)

\* -------------------------------------------------------------------- state
VARIABLES
  op_dict,  \* the catalog the run selected: "OPS" or "DARTS_OPS"
  pc,       \* "idle", "looked", "constructed", "applied", or "<step>_failed"
  key,      \* the operation key requested for the edge
  args,     \* the constructor's arguments (C_in, C_out, stride, affine)
  op,       \* the constructed instance, NoOp while there is none
  x,        \* the input of the last apply
  out,      \* the output of the last apply
  err,      \* the exception raised, "" while there is none
  training, \* the instance's mode flag (nn.Module.training)
  params,   \* the version of the learnable parameters (weights, scale, shift)
  tracked,  \* per layer, the number of updates of its running statistics
  x_after,  \* the caller's input tensor as the last apply left it
  calls,    \* per thread, the apply call it is running on the instance
  cfg,      \* the parsed command line of the training script and its queues
  mpc,      \* the call stack of the script: main, train, infer, evaluate
  net,      \* the network main constructed, NoNet while there is none
  opt_steps,       \* the number of optimizer.step() calls made
  weights_file,    \* the weights saved in weights.pt, None while unwritten
  stats,           \* stats['valid_acc'] of the last validation, None before
  best_valid_acc,  \* the best validation accuracy so far
  epoch,           \* the number of completed epochs
  best_epoch,      \* the number of the epoch that set best_valid_acc
  written,         \* history: the epochs in which weights.pt was written
  valid_accs,      \* history: the valid_acc of each completed epoch
  qpc,             \* get_training_queues: the statement it is at
  qargs,           \* get_training_queues: its arguments and len(train_data)
  indices,         \* get_training_queues: the index list
  split,           \* get_training_queues: where the index list is cut
  train_queue,     \* the training queue: its data and its sampler's indices
  valid_queue      \* the validation queue: its data and its sampler's indices

\* The state of one edge and its instance.
opvars == <<pc, key, args, op, x, out, err, training, params, tracked, x_after, calls>>

\* The state of a run of main.
mainvars ==
  <<cfg, mpc, net, opt_steps, weights_file, stats, best_valid_acc, epoch,
    best_epoch, written, valid_accs>>

\* What only the end of an epoch changes.
bestvars == <<best_epoch, written, valid_accs>>

\* The state of a call of get_training_queues.
queuevars == <<qpc, qargs, indices, split, train_queue, valid_queue>>

vars ==
  <<op_dict, pc, key, args, op, x, out, err, training, params, tracked, x_after, calls,
    cfg, mpc, net, opt_steps, weights_file, stats, best_valid_acc, epoch,
    best_epoch, written, valid_accs,
    qpc, qargs, indices, split, train_queue, valid_queue>>

\* The most epochs a run is asked for, the most mini-batches a queue holds
\* and the highest validation accuracy (in steps of the accuracy scale).
MaxEpochs == 2
MaxBatches == 2
MaxAcc == 2

\* The highest --start_epoch a run of src/cnn/train.py is given.
MaxStartEpoch == 2

\* A frame of the call stack: the function, the statement it is at, its
\* argument, the index of the mini-batch and the statements run on it so far.
Frame(fn, at, arg) == [fn |-> fn, at |-> at, arg |-> arg, batch |-> 0, log |-> << >>]

\* cnn_model: its class, the catalog it was handed, the in_channels argument
\* it was constructed with (None when the call passes none and the class
\* keeps its own default), its mode flag, its weights <<origin, optimizer
\* steps applied>>, whether a forward is running, and the drop_path_prob main
\* assigned to it: the exact fraction <<numerator, denominator>> of
\* args.drop_path_prob (None before the first epoch).
Network(cls, ops, in_channels) ==
  [cls |-> cls, op_dict |-> ops, in_channels |-> in_channels, training |-> TRUE,
   weights |-> <<"init", 0>>, inflight |-> FALSE, drop_path_prob |-> None]

NoNet == Network("", "", None)

NoCfg ==
  [script |-> "", ops |-> "", multi_channel |-> FALSE, dataset |-> "", flops |-> FALSE,
   evaluate |-> FALSE, epochs |-> 0, start_epoch |-> 0, queue_len |-> 0]

\* The arguments of get_training_queues that decide the split, with
\* train_proportion as the fraction <<numerator, denominator>>, and the
\* length of the training set the dataset branch loaded.
QueueArgs(dataset_name, train_proportion, search_architecture, num_train) ==
  [dataset_name |-> dataset_name, train_proportion |-> train_proportion,
   search_architecture |-> search_architecture, num_train |-> num_train]

NoQueueArgs == QueueArgs("", <<0, 1>>, FALSE, 0)

\* A DataLoader: the data it reads and the indices its SubsetRandomSampler
\* draws from (None without a sampler: every item of the data, in order).
DataLoader(data, sampler) == [data |-> data, sampler |-> sampler]

NoQueue == DataLoader("", None)

\* The threads that may call the instance at the same time.
Threads == {1, 2}

NoCall ==
  [state |-> "idle", x |-> NoTensor, before |-> << >>, todo |-> << >>,
   seen |-> -1, reads |-> << >>, out |-> Ok(NoTensor)]

\* The most training-mode passes and optimizer steps one instance sees.
MaxTracked == 1
MaxSteps == 1

NoArgs == [C_in |-> 0, C_out |-> 0, stride |-> 0, affine |-> FALSE]

\* The keys a genotype may name: those of both catalogs and an unregistered one.
GenotypeKeys ==
  {"none", "avg_pool_3x3", "max_pool_3x3", "skip_connect",
   "sep_conv_3x3", "sep_conv_5x5", "sep_conv_7x7", "dil_conv_3x3", "dil_conv_5x5",
   "conv_7x1_1x7", "flood_conv_3x3", "dil_flood_conv_3x3",
   "choke_conv_3x3", "dil_choke_conv_3x3",
   "nor_conv_3x3", "nor_conv_5x5", "nor_conv_7x7", "unregistered_op"}

\* The keys whose output values are those of the input: Zero and Identity.
ValueKeys == {"none", "skip_connect"}

\* Inputs (N, C, H, W) of finite values.
FiniteInputs(C) ==
  { Tensor(<<n, C, h, w>>, [p \in Positions(<<n, C, h, w>>) |-> "fin"]) :
      n \in Batches, h \in Sizes, w \in Sizes }

\* Inputs that hold one non-finite value v at spatial position hot of every plane.
NonFiniteInputs(C) ==
  UNION { { Tensor(<<n, C, h, w>>,
                   [p \in Positions(<<n, C, h, w>>) |->
                      IF <<p[3], p[4]>> = hot THEN v ELSE "fin"]) :
              hot \in (0..(h - 1)) \X (0..(w - 1)), v \in {"inf", "nan"} } :
          n \in Batches, h \in Sizes, w \in Sizes }

Init ==
  /\ op_dict \in Catalogs
  /\ pc = "idle"
  /\ key = ""
  /\ args = NoArgs
  /\ op = NoOp
  /\ x = NoTensor
  /\ out = NoTensor
  /\ err = ""
  /\ training = TRUE
  /\ params = 0
  /\ tracked = << >>
  /\ x_after = NoTensor
  /\ calls = [th \in Threads |-> NoCall]
  /\ cfg = NoCfg
  /\ mpc = << >>
  /\ net = NoNet
  /\ opt_steps = 0
  /\ weights_file = None
  /\ stats = None
  /\ best_valid_acc = 0
  /\ best_epoch = 0
  /\ written = << >>
  /\ valid_accs = << >>
  /\ qpc = "idle"
  /\ qargs = NoQueueArgs
  /\ indices = << >>
  /\ split = 0
  /\ train_queue = NoQueue
  /\ valid_queue = NoQueue
  /\ epoch = 0

\* The assembler reads the constructor of key k from the selected catalog.
LookupOp(k) ==
  /\ pc = "idle"
  /\ key' = k
  /\ err' = Lookup(op_dict, k)
  /\ pc' = IF Lookup(op_dict, k) = "" THEN "looked" ELSE "lookup_failed"
  /\ UNCHANGED mainvars
  /\ UNCHANGED queuevars
  /\ UNCHANGED <<calls, op_dict, args, op, x, out, training, params, tracked, x_after>>

\* The assembler calls the constructor. A new nn.Module is in training mode,
\* with freshly initialised parameters and running statistics.
ConstructOp(C_in, C_out, stride, affine) ==
  LET r == Construct(op_dict, key, C_in, C_out, stride, affine) IN
  /\ pc = "looked"
  /\ args' = [C_in |-> C_in, C_out |-> C_out, stride |-> stride, affine |-> affine]
  /\ op' = r.op
  /\ err' = r.err
  /\ pc' = IF r.err = "" THEN "constructed" ELSE "construct_failed"
  /\ training' = TRUE
  /\ params' = 0
  /\ tracked' = [i \in 1..Len(r.op.layers) |-> 0]
  /\ UNCHANGED mainvars
  /\ UNCHANGED queuevars
  /\ UNCHANGED <<calls, op_dict, key, x, out, x_after>>

\* A forward pass through the instance, on an input of C_in channels.
ApplyOp(t) ==
  LET r == Forward(op, t) IN
  /\ pc = "constructed"
  /\ t.shape[2] = args.C_in
  /\ training => \A i \in 1..Len(tracked) : tracked[i] < MaxTracked
  /\ x' = t
  /\ out' = r.t
  /\ err' = r.err
  /\ pc' = IF r.err = "" THEN "applied" ELSE "apply_failed"
  /\ tracked' = TrackedAfter(op, t, training, tracked)
  /\ x_after' = InputAfter(op, t)
  /\ UNCHANGED mainvars
  /\ UNCHANGED queuevars
  /\ UNCHANGED <<calls, op_dict, key, args, op, training, params>>

\* The pass is over: its tensors are dropped and the instance waits for the
\* next mini-batch.
NextBatch ==
  /\ pc = "applied"
  /\ pc' = "constructed"
  /\ x' = NoTensor
  /\ out' = NoTensor
  /\ x_after' = NoTensor
  /\ UNCHANGED mainvars
  /\ UNCHANGED queuevars
  /\ UNCHANGED <<calls, op_dict, key, args, op, err, training, params, tracked>>

\* model.train() and model.eval() set the mode flag of every submodule.
SetMode(mode) ==
  /\ pc = "constructed"
  /\ training # mode
  /\ training' = mode
  /\ UNCHANGED mainvars
  /\ UNCHANGED queuevars
  /\ UNCHANGED <<calls, op_dict, pc, key, args, op, x, out, err, params, tracked, x_after>>

\* optimizer.step() after the backward pass of a training batch: the
\* parameters get new values and the batch is over.
OptimizerStep ==
  /\ pc = "applied"
  /\ training
  /\ params < MaxSteps
  /\ params' = params + 1
  /\ pc' = "constructed"
  /\ x' = NoTensor
  /\ out' = NoTensor
  /\ x_after' = NoTensor
  /\ UNCHANGED mainvars
  /\ UNCHANGED queuevars
  /\ UNCHANGED <<calls, op_dict, key, args, op, err, training, tracked>>

Next ==
  \/ \E k \in GenotypeKeys : LookupOp(k)
  \/ \E ci \in Channels, co \in Channels, s \in Strides, a \in BOOLEAN :
       ConstructOp(ci, co, s, a)
  \/ /\ pc = "constructed"
     /\ \E t \in FiniteInputs(args.C_in) : ApplyOp(t)
  \/ NextBatch

Spec == Init /\ [][Next]_vars

\* The same edge restricted to Zero and Identity, on inputs that may hold
\* infinities and NaNs.
NextValues ==
  \/ \E k \in ValueKeys : LookupOp(k)
  \/ \E ci \in Channels, co \in Channels, s \in Strides, a \in BOOLEAN :
       ConstructOp(ci, co, s, a)
  \/ /\ pc = "constructed"
     /\ \E t \in FiniteInputs(args.C_in) \cup NonFiniteInputs(args.C_in) : ApplyOp(t)
  \/ NextBatch

SpecValues == Init /\ [][NextValues]_vars

\* Square inputs (N, C, H, H).
SquareInputs(C) == { t \in FiniteInputs(C) : t.shape[3] = t.shape[4] }

\* The edge inside the training and validation loops: the mode is switched
\* between passes and the optimizer steps after training passes.
NextModes ==
  \/ \E k \in GenotypeKeys : LookupOp(k)
  \/ \E ci \in Channels, co \in Channels, s \in Strides, a \in BOOLEAN :
       ConstructOp(ci, co, s, a)
  \/ /\ pc = "constructed"
     /\ \E t \in SquareInputs(args.C_in) : ApplyOp(t)
  \/ NextBatch
  \/ \E mode \in BOOLEAN : SetMode(mode)
  \/ OptimizerStep

SpecModes == Init /\ [][NextModes]_vars

\* ------------------------------------------------------- concurrent applies
\* Mutant: running statistics are written in evaluation mode too.
BNWritesAlways(mode) == TRUE

\* F.batch_norm(..., training=self.training): in training mode the layer
\* normalises with the batch's statistics and folds them into its running
\* statistics; in evaluation mode it normalises with the running statistics
\* and writes nothing.
BNWrites(mode) == mode

\* The normalization layers a call on input t runs, in order.
BNReached(m, t) ==
  SelectSeq([i \in 1..Len(m.layers) |-> i],
            LAMBDA i : m.layers[i].op = "BatchNorm2d" /\ i \in Reached(m, t))

\* Inputs of the concurrent calls: one per batch size.
ConcInputs(C) == { t \in SquareInputs(C) : t.shape[3] = MaxH }

\* Thread th enters forward on input t.
BeginCall(th, t) ==
  /\ pc = "constructed"
  /\ calls[th].state = "idle"
  /\ t.shape[2] = args.C_in
  /\ calls' = [calls EXCEPT ![th] =
       [state |-> "running", x |-> t, before |-> tracked, todo |-> BNReached(op, t),
        seen |-> -1, reads |-> << >>, out |-> Ok(NoTensor)]]
  /\ UNCHANGED mainvars
  /\ UNCHANGED queuevars
  /\ UNCHANGED <<op_dict, pc, key, args, op, x, out, err, training, params, tracked, x_after>>

\* Thread th runs up to its next access to the instance's running statistics
\* and makes it. No lock guards them: the update of a training-mode layer is
\* a read and a later write, and other threads run in between. With no
\* normalization layer left the call returns.
StepCall(th) ==
  LET c == calls[th] IN
  /\ c.state = "running"
  /\ IF c.todo = << >>
     THEN /\ calls' = [calls EXCEPT ![th].state = "done", ![th].out = Forward(op, c.x)]
          /\ UNCHANGED tracked
     ELSE LET i == Head(c.todo) IN
          IF BNWrites(training)
          THEN IF c.seen = -1
               THEN /\ calls' = [calls EXCEPT ![th].seen = tracked[i]]
                    /\ UNCHANGED tracked
               ELSE /\ tracked' = [tracked EXCEPT ![i] = c.seen + 1]
                    /\ calls' = [calls EXCEPT ![th].seen = -1, ![th].todo = Tail(c.todo)]
          ELSE /\ calls' = [calls EXCEPT ![th].reads = Append(c.reads, <<i, tracked[i]>>),
                                         ![th].todo = Tail(c.todo)]
               /\ UNCHANGED tracked
  /\ UNCHANGED mainvars
  /\ UNCHANGED queuevars
  /\ UNCHANGED <<op_dict, pc, key, args, op, x, out, err, training, params, x_after>>

NextConc ==
  \/ \E k \in GenotypeKeys : LookupOp(k)
  \/ \E c \in Channels, s \in {1, 2} : ConstructOp(c, c, s, TRUE)
  \/ /\ \A th \in Threads : calls[th].state = "idle"
     /\ \E mode \in BOOLEAN : SetMode(mode)
  \/ /\ pc = "constructed"
     /\ \E th \in Threads : \E t \in ConcInputs(args.C_in) : BeginCall(th, t)
  \/ \E th \in Threads : StepCall(th)

SpecConc == Init /\ [][NextConc]_vars

\* --------------------------------------------------------- the run of main
\* The tables of the dataset module: the number of classes and the number of
\* input channels of each dataset it knows.
class_dict ==
  [d \in {"cifar10", "mnist", "emnist", "fashion", "svhn", "stl10", "devanagari"} |->
     CASE d = "cifar10" -> 10
       [] d = "mnist" -> 10
       [] d = "emnist" -> 47
       [] d = "fashion" -> 10
       [] d = "svhn" -> 10
       [] d = "stl10" -> 10
       [] d = "devanagari" -> 46]

inp_channel_dict ==
  [d \in {"cifar10", "mnist", "emnist", "fashion", "svhn", "stl10", "devanagari"} |->
     CASE d = "cifar10" -> 3
       [] d = "mnist" -> 1
       [] d = "emnist" -> 1
       [] d = "fashion" -> 1
       [] d = "svhn" -> 3
       [] d = "stl10" -> 3
       [] d = "devanagari" -> 1]

\* The command lines: src/cnn/train.py takes --ops, --multi_channel, --flops
\* and --evaluate; src/darts/cnn/train.py has none of them. --dataset is any
\* name of the tables, or 'imagenet', which the network branch of
\* src/cnn/train.py tests for. --start_epoch exists in src/cnn/train.py only;
\* the epochs of src/darts/cnn/train.py are range(args.epochs), from 0.
Configs ==
  [script : {"cnn"}, ops : {"OPS", "DARTS_OPS", "NO_SUCH_OPS"}, multi_channel : BOOLEAN,
   dataset : DOMAIN inp_channel_dict \cup {"imagenet"}, flops : BOOLEAN,
   evaluate : BOOLEAN, epochs : 0..MaxEpochs, start_epoch : 1..MaxStartEpoch,
   queue_len : 1..MaxBatches]
  \cup
  [script : {"darts"}, ops : {""}, multi_channel : {FALSE},
   dataset : DOMAIN inp_channel_dict \cup {"imagenet"}, flops : {FALSE},
   evaluate : {FALSE}, epochs : 0..MaxEpochs, start_epoch : {0},
   queue_len : 1..MaxBatches]

Top == mpc[Len(mpc)]

SetTop(f) == [mpc EXCEPT ![Len(mpc)] = f]

\* The running function moves on to statement a.
Goto(a) == SetTop([Top EXCEPT !.at = a])

\* The running function calls f and will resume at statement a.
Call(a, f) == Append(Goto(a), f)

Return == SubSeq(mpc, 1, Len(mpc) - 1)

\* An uncaught exception ends the run.
Abort == << Frame("main", "failed", "") >>

At(fn, a) == mpc # << >> /\ Top.fn = fn /\ Top.at = a

InitMain ==
  /\ cfg \in Configs
  /\ mpc = << Frame("main", "tables", "") >>
  /\ op_dict = ""
  /\ net = NoNet
  /\ opt_steps = 0
  /\ weights_file = None
  /\ stats = None
  /\ best_valid_acc = 0
  /\ best_epoch = 0
  /\ written = << >>
  /\ valid_accs = << >>
  /\ qpc = "idle"
  /\ qargs = NoQueueArgs
  /\ indices = << >>
  /\ split = 0
  /\ train_queue = NoQueue
  /\ valid_queue = NoQueue
  /\ epoch = 0
  /\ pc = "idle"
  /\ key = ""
  /\ args = NoArgs
  /\ op = NoOp
  /\ x = NoTensor
  /\ out = NoTensor
  /\ err = ""
  /\ training = TRUE
  /\ params = 0
  /\ tracked = << >>
  /\ x_after = NoTensor
  /\ calls = [th \in Threads |-> NoCall]

\* main looks args.dataset up in class_dict and inp_channel_dict: KeyError
\* for a name the tables do not hold. src/cnn/train.py also reads
\* dataset.mean_dict and dataset.std_dict there, which src/cnn/dataset.py
\* does not define: the normalisation statistics belong to the data
\* pipeline, reach no state of this model, and the two reads are taken to
\* succeed.
ReadDatasetTables ==
  /\ At("main", "tables")
  /\ mpc' = IF cfg.dataset \in DOMAIN class_dict /\ cfg.dataset \in DOMAIN inp_channel_dict
            THEN Goto(IF cfg.script = "cnn" THEN "load_ops" ELSE "build_network")
            ELSE Abort
  /\ UNCHANGED <<op_dict, cfg, net, opt_steps, weights_file, stats, best_valid_acc, epoch>>
  /\ UNCHANGED opvars
  /\ UNCHANGED bestvars
  /\ UNCHANGED queuevars

\* op_dict = eval("operations.%s" % args.ops): AttributeError for a name the
\* operations module does not define.
SelectCatalog ==
  /\ At("main", "load_ops")
  /\ IF cfg.ops \in Catalogs
     THEN op_dict' = cfg.ops /\ mpc' = Goto("build_network")
     ELSE op_dict' = op_dict /\ mpc' = Abort
  /\ UNCHANGED <<cfg, net, opt_steps, weights_file, stats, best_valid_acc, epoch>>
  /\ UNCHANGED opvars
  /\ UNCHANGED bestvars
  /\ UNCHANGED queuevars

\* Mutant: the CIFAR branch re-selects the primary catalog.
BuildNetworkReselects ==
  /\ At("main", "build_network")
  /\ net' = IF cfg.script = "darts"
            THEN Network("NetworkCIFAR", "default", Some(inp_channel_dict[cfg.dataset]))
            ELSE IF cfg.multi_channel THEN net
            ELSE IF cfg.dataset = "imagenet" THEN Network("NetworkImageNet", op_dict, None)
            ELSE Network("NetworkCIFAR", "OPS", None)
  /\ op_dict' = IF cfg.script = "cnn" /\ ~cfg.multi_channel /\ cfg.dataset # "imagenet"
                THEN "OPS" ELSE op_dict
  /\ mpc' = IF cfg.script = "cnn" /\ cfg.multi_channel THEN Abort
            ELSE Goto(IF cfg.flops THEN "returned" ELSE "optimizer")
  /\ UNCHANGED <<cfg, opt_steps, weights_file, stats, best_valid_acc, epoch>>
  /\ UNCHANGED opvars
  /\ UNCHANGED bestvars
  /\ UNCHANGED queuevars

\* The network is constructed. src/darts/cnn/train.py builds its Network
\* without a catalog argument and with in_channels = inp_channel_dict of the
\* dataset. src/cnn/train.py hands op_dict to NetworkImageNet and to
\* NetworkCIFAR, and DATASET_CHANNELS to neither; its --multi_channel branch
\* names MultiChannelNetwork, which the script never imports (it imports
\* MultiChannelNetworkModel): NameError. With --flops main counts the flops
\* of the model and returns.
BuildNetwork ==
  /\ At("main", "build_network")
  /\ net' = IF cfg.script = "darts"
            THEN Network("NetworkCIFAR", "default", Some(inp_channel_dict[cfg.dataset]))
            ELSE IF cfg.multi_channel THEN net
            ELSE IF cfg.dataset = "imagenet" THEN Network("NetworkImageNet", op_dict, None)
            ELSE Network("NetworkCIFAR", op_dict, None)
  /\ op_dict' = op_dict
  /\ mpc' = IF cfg.script = "cnn" /\ cfg.multi_channel THEN Abort
            ELSE Goto(IF cfg.flops THEN "returned" ELSE "optimizer")
  /\ UNCHANGED <<cfg, opt_steps, weights_file, stats, best_valid_acc, epoch>>
  /\ UNCHANGED opvars
  /\ UNCHANGED bestvars
  /\ UNCHANGED queuevars

\* The optimizer and the queues are built; with --evaluate main evaluates the
\* weights of args.load and returns. The queues come from the data pipeline:
\* the call of src/cnn/train.py passes valid_transform as a third positional
\* argument, which get_training_queues of src/cnn/dataset.py does not take,
\* so the pipeline main runs against is not that function; the call is taken
\* to return a training and a validation queue of queue_len mini-batches.
BuildOptimizer ==
  /\ At("main", "optimizer")
  /\ opt_steps' = 0
  /\ mpc' = IF cfg.evaluate THEN Call("returned", Frame("evaluate", "load", "args.load"))
            ELSE Goto("epoch")
  /\ UNCHANGED <<op_dict, cfg, net, weights_file, stats, best_valid_acc, epoch>>
  /\ UNCHANGED opvars
  /\ UNCHANGED bestvars
  /\ UNCHANGED queuevars

\* The number the loop variable epoch has in the running epoch:
\* np.arange(args.epochs) + args.start_epoch in src/cnn/train.py,
\* range(args.epochs) in src/darts/cnn/train.py.
EpochNumber == IF cfg.script = "cnn" THEN cfg.start_epoch + epoch ELSE epoch

\* model.drop_path_prob = args.drop_path_prob * epoch / args.epochs, kept as
\* the fraction epoch / args.epochs of args.drop_path_prob.
DropPathProb == <<EpochNumber, cfg.epochs>>

\* The head of the epoch loop: another epoch assigns the drop-path
\* probability and calls train; after the last one cnn/train.py evaluates
\* weights.pt, darts/cnn/train.py returns.
BeginEpoch ==
  /\ At("main", "epoch")
  /\ mpc' = IF epoch < cfg.epochs THEN Call("infer", Frame("train", "mode", ""))
            ELSE IF cfg.script = "cnn"
                 THEN Call("returned", Frame("evaluate", "load", "weights_file"))
                 ELSE Goto("returned")
  /\ net' = IF epoch < cfg.epochs
            THEN [net EXCEPT !.drop_path_prob = Some(DropPathProb)]
            ELSE net
  /\ UNCHANGED <<op_dict, cfg, opt_steps, weights_file, stats, best_valid_acc, epoch>>
  /\ UNCHANGED opvars
  /\ UNCHANGED bestvars
  /\ UNCHANGED queuevars

\* main calls infer on the validation queue.
CallInfer ==
  /\ At("main", "infer")
  /\ mpc' = Call("save", Frame("infer", "mode", "valid_"))
  /\ UNCHANGED <<op_dict, cfg, net, opt_steps, weights_file, stats, best_valid_acc, epoch>>
  /\ UNCHANGED opvars
  /\ UNCHANGED bestvars
  /\ UNCHANGED queuevars

\* cnn/train.py saves the weights when the epoch's valid_acc exceeds the
\* best so far, and notes the epoch as best_epoch; darts/cnn/train.py saves
\* them after every epoch and keeps no best.
SaveIfBest ==
  /\ At("main", "save")
  /\ IF cfg.script = "darts"
     THEN /\ weights_file' = Some(net.weights)
          /\ written' = Append(written, EpochNumber)
          /\ UNCHANGED <<best_valid_acc, best_epoch>>
     ELSE IF stats[1] > best_valid_acc
          THEN /\ weights_file' = Some(net.weights)
               /\ written' = Append(written, EpochNumber)
               /\ best_epoch' = EpochNumber
               /\ best_valid_acc' = stats[1]
          ELSE UNCHANGED <<weights_file, written, best_epoch, best_valid_acc>>
  /\ valid_accs' = Append(valid_accs, stats[1])
  /\ epoch' = epoch + 1
  /\ mpc' = Goto("epoch")
  /\ UNCHANGED <<op_dict, cfg, net, opt_steps, stats>>
  /\ UNCHANGED opvars
  /\ UNCHANGED queuevars

\* Mutant: the optimizer steps before the backward pass.
TrainBodyStepsEarly == <<"zero_grad", "forward", "loss", "step", "backward", "clip", "metrics">>

\* The statements train runs on each mini-batch (the same in both scripts),
\* and those infer runs under torch.no_grad().
TrainBody == <<"zero_grad", "forward", "loss", "backward", "clip", "step", "metrics">>

InferBody == <<"forward", "loss", "metrics">>

Body(fn) == IF fn = "train" THEN TrainBody ELSE InferBody

\* The statement that follows statement a in the loop body.
After(fn, a) == Body(fn)[(CHOOSE i \in 1..Len(Body(fn)) : Body(fn)[i] = a) + 1]

InLoop == mpc # << >> /\ Top.fn \in {"train", "infer"}

\* cnn_model.train() at the top of train, cnn_model.eval() at the top of infer.
EnterMode ==
  /\ InLoop /\ Top.at = "mode"
  /\ net' = [net EXCEPT !.training = (Top.fn = "train")]
  /\ mpc' = Goto(Body(Top.fn)[1])
  /\ UNCHANGED <<op_dict, cfg, opt_steps, weights_file, stats, best_valid_acc, epoch>>
  /\ UNCHANGED opvars
  /\ UNCHANGED bestvars
  /\ UNCHANGED queuevars

\* optimizer.zero_grad(), the loss, loss.backward() and the gradient clipping.
Statement ==
  /\ InLoop /\ Top.at \in {"zero_grad", "loss", "backward", "clip"}
  /\ mpc' = SetTop([Top EXCEPT !.at = After(Top.fn, Top.at), !.log = Append(@, Top.at)])
  /\ UNCHANGED <<op_dict, cfg, net, opt_steps, weights_file, stats, best_valid_acc, epoch>>
  /\ UNCHANGED opvars
  /\ UNCHANGED bestvars
  /\ UNCHANGED queuevars

\* cnn_model(input_batch) is entered.
ForwardCall ==
  /\ InLoop /\ Top.at = "forward" /\ ~net.inflight
  /\ net' = [net EXCEPT !.inflight = TRUE]
  /\ mpc' = SetTop([Top EXCEPT !.log = Append(@, "forward")])
  /\ UNCHANGED <<op_dict, cfg, opt_steps, weights_file, stats, best_valid_acc, epoch>>
  /\ UNCHANGED opvars
  /\ UNCHANGED bestvars
  /\ UNCHANGED queuevars

\* cnn_model(input_batch) returns the logits.
ForwardReturn ==
  /\ InLoop /\ Top.at = "forward" /\ net.inflight
  /\ net' = [net EXCEPT !.inflight = FALSE]
  /\ mpc' = Goto(After(Top.fn, "forward"))
  /\ UNCHANGED <<op_dict, cfg, opt_steps, weights_file, stats, best_valid_acc, epoch>>
  /\ UNCHANGED opvars
  /\ UNCHANGED bestvars
  /\ UNCHANGED queuevars

\* optimizer.step(): the weights get new values.
StepOptimizer ==
  /\ InLoop /\ Top.at = "step"
  /\ opt_steps' = opt_steps + 1
  /\ net' = [net EXCEPT !.weights = <<@[1], @[2] + 1>>]
  /\ mpc' = SetTop([Top EXCEPT !.at = After(Top.fn, "step"), !.log = Append(@, "step")])
  /\ UNCHANGED <<op_dict, cfg, weights_file, stats, best_valid_acc, epoch>>
  /\ UNCHANGED opvars
  /\ UNCHANGED bestvars
  /\ UNCHANGED queuevars

\* The metrics of the mini-batch are recorded and the loop goes on to the
\* next mini-batch; after the last one the function returns, infer with the
\* accuracy it measured, which main stores in stats.
Metrics(acc) ==
  /\ InLoop /\ Top.at = "metrics"
  /\ IF Top.batch + 1 < cfg.queue_len
     THEN /\ mpc' = SetTop([Top EXCEPT !.at = Body(Top.fn)[1], !.batch = @ + 1,
                                       !.log = << >>])
          /\ stats' = stats
     ELSE /\ mpc' = Return
          /\ stats' = IF Top.fn = "infer" /\ mpc[Len(mpc) - 1].fn = "main"
                      THEN Some(acc) ELSE stats
  /\ UNCHANGED <<op_dict, cfg, net, opt_steps, weights_file, best_valid_acc, epoch>>
  /\ UNCHANGED opvars
  /\ UNCHANGED bestvars
  /\ UNCHANGED queuevars

\* evaluate: utils.load(cnn_model, weights_file); a file never written
\* cannot be read.
EvaluateLoad ==
  /\ At("evaluate", "load")
  /\ IF Top.arg = "args.load"
     THEN net' = [net EXCEPT !.weights = <<"load", 0>>] /\ mpc' = Goto("train_")
     ELSE IF weights_file = None
          THEN net' = net /\ mpc' = Abort
          ELSE net' = [net EXCEPT !.weights = weights_file[1]] /\ mpc' = Goto("train_")
  /\ UNCHANGED <<op_dict, cfg, opt_steps, weights_file, stats, best_valid_acc, epoch>>
  /\ UNCHANGED opvars
  /\ UNCHANGED bestvars
  /\ UNCHANGED queuevars

\* evaluate: infer on the training, validation and test queues in turn; the
\* test queue exists for cifar10 only.
EvaluateQueue ==
  /\ mpc # << >> /\ Top.fn = "evaluate" /\ Top.at \in {"train_", "valid_", "test_"}
  /\ LET after == CASE Top.at = "train_" -> "valid_"
                    [] Top.at = "valid_" -> "test_"
                    [] OTHER -> "return"
     IN mpc' = IF Top.at = "test_" /\ cfg.dataset # "cifar10" THEN Goto(after)
               ELSE Call(after, Frame("infer", "mode", Top.at))
  /\ UNCHANGED <<op_dict, cfg, net, opt_steps, weights_file, stats, best_valid_acc, epoch>>
  /\ UNCHANGED opvars
  /\ UNCHANGED bestvars
  /\ UNCHANGED queuevars

EvaluateReturn ==
  /\ At("evaluate", "return")
  /\ mpc' = Return
  /\ UNCHANGED <<op_dict, cfg, net, opt_steps, weights_file, stats, best_valid_acc, epoch>>
  /\ UNCHANGED opvars
  /\ UNCHANGED bestvars
  /\ UNCHANGED queuevars

NextMain ==
  \/ ReadDatasetTables
  \/ SelectCatalog
  \/ BuildNetwork
  \/ BuildOptimizer
  \/ BeginEpoch
  \/ CallInfer
  \/ SaveIfBest
  \/ EnterMode
  \/ Statement
  \/ ForwardCall
  \/ ForwardReturn
  \/ StepOptimizer
  \/ \E acc \in 0..MaxAcc : Metrics(acc)
  \/ EvaluateLoad
  \/ EvaluateQueue
  \/ EvaluateReturn

SpecMain == InitMain /\ [][NextMain]_vars

\* ------------------------------------------- the call of get_training_queues
\* The most items a training set holds, and the denominator of the
\* train_proportion values tried (from 0 to 2, so also out of range).
MaxTrain == 3
PropDen == 4

\* The datasets get_training_queues has a branch for (those of the tables;
\* 'stacking' needs the costar package and is left out).
QueueDatasets == DOMAIN class_dict

QueueInputs ==
  {QueueArgs(d, <<k, PropDen>>, sa, n) :
     d \in {"cifar10", "devanagari", "imagenet"}, k \in 0..(2 * PropDen),
     sa \in BOOLEAN, n \in 0..MaxTrain}

\* int(np.floor(p * n)) for p = <<numerator, denominator>> >= 0.
Floor(p, n) == (p[1] * n) \div p[2]

\* Mutant: the split is rounded up.
SplitRoundsUp(a) ==
  IF a.search_architecture
  THEN (a.train_proportion[1] * a.num_train + a.train_proportion[2] - 1)
         \div a.train_proportion[2]
  ELSE a.num_train

\* split: the first train_proportion of the training set when the validation
\* set is taken from it, all of it otherwise.
Split(a) ==
  IF a.search_architecture THEN Floor(a.train_proportion, a.num_train) ELSE a.num_train

\* list(range(n)).
Range(n) == [i \in 1..n |-> i - 1]

\* The orders np.random.shuffle may leave a list in.
Shuffles(l) ==
  {[i \in 1..Len(l) |-> l[f[i]]] :
     f \in {g \in [1..Len(l) -> 1..Len(l)] :
              \A i, j \in 1..Len(l) : g[i] = g[j] => i = j}}

\* l[lo:hi] for 0 <= lo and 0 <= hi: both ends are clipped to the list.
Slice(l, lo, hi) ==
  LET to == IF hi < Len(l) THEN hi ELSE Len(l)
      from == IF lo < to THEN lo ELSE to
  IN [i \in 1..(to - from) |-> l[from + i]]

InitQueues ==
  /\ qargs \in QueueInputs
  /\ qpc = "load"
  /\ indices = << >>
  /\ split = 0
  /\ train_queue = NoQueue
  /\ valid_queue = NoQueue
  /\ cfg = NoCfg
  /\ mpc = << >>
  /\ op_dict = ""
  /\ net = NoNet
  /\ opt_steps = 0
  /\ weights_file = None
  /\ stats = None
  /\ best_valid_acc = 0
  /\ epoch = 0
  /\ best_epoch = 0
  /\ written = << >>
  /\ valid_accs = << >>
  /\ pc = "idle"
  /\ key = ""
  /\ args = NoArgs
  /\ op = NoOp
  /\ x = NoTensor
  /\ out = NoTensor
  /\ err = ""
  /\ training = TRUE
  /\ params = 0
  /\ tracked = << >>
  /\ x_after = NoTensor
  /\ calls = [th \in Threads |-> NoCall]

\* The branch of dataset_name loads train_data; a name without a branch
\* fails the assertion.
LoadTrainData ==
  /\ qpc = "load"
  /\ qpc' = IF qargs.dataset_name \in QueueDatasets THEN "split" ELSE "failed"
  /\ UNCHANGED <<qargs, indices, split, train_queue, valid_queue>>
  /\ UNCHANGED <<op_dict, opvars, mainvars>>

\* num_train = len(train_data); indices = list(range(num_train)); split.
SplitIndices ==
  /\ qpc = "split"
  /\ indices' = Range(qargs.num_train)
  /\ split' = Split(qargs)
  /\ qpc' = "shuffle"
  /\ UNCHANGED <<qargs, train_queue, valid_queue>>
  /\ UNCHANGED <<op_dict, opvars, mainvars>>

\* The index list of devanagari is shuffled in place.
ShuffleIndices ==
  /\ qpc = "shuffle"
  /\ IF qargs.dataset_name = "devanagari"
     THEN indices' \in Shuffles(indices)
     ELSE indices' = indices
  /\ qpc' = "queues"
  /\ UNCHANGED <<qargs, split, train_queue, valid_queue>>
  /\ UNCHANGED <<op_dict, opvars, mainvars>>

\* The training queue samples indices[:split] of the training set; the
\* validation queue samples indices[split:num_train] of it when the
\* architecture is searched, and reads the whole test set otherwise.
BuildQueues ==
  /\ qpc = "queues"
  /\ train_queue' = DataLoader("train", Some(Slice(indices, 0, split)))
  /\ valid_queue' = IF qargs.search_architecture
                    THEN DataLoader("train", Some(Slice(indices, split, qargs.num_train)))
                    ELSE DataLoader("test", None)
  /\ qpc' = "returned"
  /\ UNCHANGED <<qargs, indices, split>>
  /\ UNCHANGED <<op_dict, opvars, mainvars>>

NextQueues ==
  \/ LoadTrainData
  \/ SplitIndices
  \/ ShuffleIndices
  \/ BuildQueues

SpecQueues == InitQueues /\ [][NextQueues]_vars


\* ------------------------------------------------------------------- claims
Attempted == {"constructed", "construct_failed", "applied", "apply_failed"}

Divisible(t, stride) == t.shape[3] % stride = 0 /\ t.shape[4] % stride = 0

\* C1: for every key of OPS, stride 1 or 2 and an input whose H and W are
\* multiples of the stride, the output's spatial size is (H/stride, W/stride).
C1_SpatialContract ==
  (pc = "applied" /\ op_dict = "OPS" /\ args.stride \in {1, 2} /\ Divisible(x, args.stride))
    => /\ out.shape[3] = x.shape[3] \div args.stride
       /\ out.shape[4] = x.shape[4] \div args.stride

\* C2: every instance built from OPS maps C_in channels to exactly C_out
\* channels, for every key.
C2_ChannelContract ==
  (pc = "applied" /\ op_dict = "OPS") => out.shape[2] = args.C_out

\* C2 as amended: the output has C_out channels for every key of OPS except
\* 'none' and 'skip_connect' at stride 1, whose output has the input's C_in
\* channels whatever C_out is.
C2_ChannelContractAmended ==
  (pc = "applied" /\ op_dict = "OPS") =>
    out.shape[2] = IF key = "none" \/ (key = "skip_connect" /\ args.stride = 1)
                   THEN args.C_in ELSE args.C_out

C2_Witness ==
  /\ pc = "applied" /\ op_dict = "OPS" /\ key = "avg_pool_3x3"
  /\ args.C_in = 3 /\ args.C_out = 2 /\ out.shape[2] = 2

\* C3: FactorizedReduce fails at construction exactly when its C_out is odd;
\* for an even C_out it builds two paths of C_out/2 channels and a joint
\* normalization over C_out channels, and apply returns C_out channels.
C3_FactorizedReduceEven ==
  LET frC_out == IF op_dict = "OPS" THEN args.C_out ELSE args.C_in IN
  (key = "skip_connect" /\ pc \in Attempted /\ args.stride # 1) =>
    /\ (pc = "construct_failed") <=> (frC_out % 2 = 1)
    /\ pc = "construct_failed" => (err = "AssertionError" /\ op = NoOp)
    /\ pc # "construct_failed" =>
         /\ op.kind = "FactorizedReduce"
         /\ op.layers[2].cout = frC_out \div 2
         /\ op.layers[3].cout = frC_out \div 2
         /\ op.layers[4].cin = frC_out
    /\ pc = "applied" => out.shape[2] = frC_out
    /\ args.stride >= 2 => pc # "apply_failed"

C3_Witness ==
  /\ pc = "applied" /\ op_dict = "OPS" /\ key = "skip_connect"
  /\ args.stride = 2 /\ args.C_in = 3 /\ args.C_out = 2
  /\ op.kind = "FactorizedReduce" /\ out.shape[2] = 2

\* C4: Zero returns a tensor whose elements are all zero, of the input's
\* shape at stride 1 and of shape (N, C, H/2, W/2) at stride 2.
C4_ZeroAllZero ==
  (pc = "applied" /\ key = "none") =>
    /\ \A p \in Positions(out.shape) : out.data[p] = "zero"
    /\ args.stride = 1 => out.shape = x.shape
    /\ (args.stride = 2 /\ Divisible(x, 2)) =>
         out.shape = <<x.shape[1], x.shape[2], x.shape[3] \div 2, x.shape[4] \div 2>>

\* C4 as amended: Zero returns a tensor of the input's shape at stride 1 and
\* of shape (N, C, H/2, W/2) at stride 2 (channel count unchanged); its
\* element (n, c, i, j) is zero where the input's element
\* (n, c, stride*i, stride*j) is finite and NaN where that element is
\* infinite or NaN (fixed-offset slicing, then x * 0).
C4_ZeroAmended ==
  (pc = "applied" /\ key = "none") =>
    /\ out.shape[1] = x.shape[1] /\ out.shape[2] = x.shape[2]
    /\ args.stride = 1 => out.shape = x.shape
    /\ (args.stride = 2 /\ Divisible(x, 2)) =>
         out.shape = <<x.shape[1], x.shape[2], x.shape[3] \div 2, x.shape[4] \div 2>>
    /\ \A p \in Positions(out.shape) :
         LET src == <<p[1], p[2], args.stride * p[3], args.stride * p[4]>> IN
         /\ src \in Positions(x.shape)
         /\ out.data[p] = IF x.data[src] \in {"inf", "nan"} THEN "nan" ELSE "zero"

C4_Witness ==
  /\ pc = "applied" /\ key = "none" /\ args.stride = 2
  /\ x.shape[3] = 2 /\ x.shape[4] = 2
  /\ x.data[<<0, 0, 0, 0>>] = "inf"
  /\ out.shape[3] = 1 /\ out.shape[4] = 1
  /\ out.data[<<0, 0, 0, 0>>] = "nan"

\* C5: once an operation is constructed without error, apply on an input
\* (N, C_in, H, W) with H and W multiples of the stride never fails.
C5_ApplyNeverFails ==
  ~(pc = "apply_failed" /\ args.stride >= 1 /\ Divisible(x, args.stride))

\* C6: a key absent from the selected catalog yields an error at lookup and
\* no operation instance; each of the 14 documented keys of the primary
\* catalog is found.
C6_LookupUnknownKey ==
  LET primary == {"none", "avg_pool_3x3", "max_pool_3x3", "skip_connect",
                  "sep_conv_3x3", "sep_conv_5x5", "sep_conv_7x7",
                  "dil_conv_3x3", "dil_conv_5x5", "conv_7x1_1x7",
                  "flood_conv_3x3", "dil_flood_conv_3x3",
                  "choke_conv_3x3", "dil_choke_conv_3x3"}
      legacy == {"none", "avg_pool_3x3", "max_pool_3x3", "skip_connect",
                 "sep_conv_3x3", "sep_conv_5x5", "sep_conv_7x7",
                 "dil_conv_3x3", "dil_conv_5x5", "conv_7x1_1x7",
                 "nor_conv_3x3", "nor_conv_5x5", "nor_conv_7x7"}
      absent == IF op_dict = "OPS" THEN key \notin primary ELSE key \notin legacy
  IN pc # "idle" =>
       /\ absent => (pc = "lookup_failed" /\ err = "KeyError" /\ op = NoOp)
       /\ (op_dict = "OPS" /\ key \in primary) => pc # "lookup_failed"

C6_Witness ==
  /\ pc = "lookup_failed" /\ op_dict = "OPS" /\ key = "nor_conv_3x3"
  /\ err = "KeyError" /\ op = NoOp

\* C7: for every key of either catalog, construction with stride < 1 fails
\* and returns no instance.
C7_InvalidStride ==
  (pc \in Attempted /\ args.stride < 1) => (pc = "construct_failed" /\ op = NoOp)

\* C8: 'skip_connect' at stride 1 with C_in # C_out fails at construction; an
\* Identity instance exists only when C_in = C_out.
C8_IdentityEqualChannels ==
  (pc \in Attempted /\ key = "skip_connect" /\ args.stride = 1 /\ args.C_in # args.C_out)
    => (pc = "construct_failed" /\ op.kind # "Identity")

\* C9: in both catalogs 'skip_connect' is Identity exactly when stride = 1
\* (apply returns its input) and FactorizedReduce otherwise, and that
\* FactorizedReduce downsamples by the requested stride.
C9_SkipConnect ==
  (key = "skip_connect" /\ pc \in {"constructed", "applied", "apply_failed"}) =>
    /\ (op.kind = "Identity") <=> (args.stride = 1)
    /\ args.stride # 1 => op.kind = "FactorizedReduce"
    /\ (pc = "applied" /\ args.stride = 1) => out = x
    /\ (pc = "applied" /\ args.stride >= 2 /\ Divisible(x, args.stride)) =>
         /\ out.shape[3] = x.shape[3] \div args.stride
         /\ out.shape[4] = x.shape[4] \div args.stride

\* C10: in every SepConv of the primary catalog the mid-channel count (output
\* of the first pointwise conv, first normalization, second depthwise conv,
\* input of the second pointwise conv) is C_out for sep_conv_* and dil_conv_*,
\* 4 * C_out for the flood keys and 32 for the choke keys.
C10_SepConvMidChannels ==
  (op_dict = "OPS" /\ pc \in {"constructed", "applied", "apply_failed"}
   /\ op.kind = "SepConv") =>
    LET mid == CASE key \in {"flood_conv_3x3", "dil_flood_conv_3x3"} -> 4 * args.C_out
                 [] key \in {"choke_conv_3x3", "dil_choke_conv_3x3"} -> 32
                 [] OTHER -> args.C_out
    IN /\ op.layers[3].cout = mid
       /\ op.layers[4].cin = mid
       /\ op.layers[6].cin = mid /\ op.layers[6].cout = mid /\ op.layers[6].groups = mid
       /\ op.layers[7].cin = mid
       /\ op.layers[3].cin = args.C_in /\ op.layers[7].cout = args.C_out

C10_Witness ==
  /\ op_dict = "OPS" /\ pc = "applied" /\ key = "dil_choke_conv_3x3"
  /\ args.C_in = 2 /\ args.C_out = 3
  /\ op.layers[4].cin = 32 /\ out.shape[2] = 3

\* C14: constructing any entry of the legacy catalog with C_in # C_out is
\* rejected at construction; no instance that ignores C_out is returned.
C14_LegacyRejectsMismatch ==
  (op_dict = "DARTS_OPS" /\ pc \in Attempted /\ args.C_in # args.C_out)
    => (pc = "construct_failed" /\ op = NoOp)

\* C16: for every key of the legacy catalog built with C_in = C_out = C,
\* stride 1 or 2, and an input (N, C, H, W) whose H and W are multiples of the
\* stride, the output is (N, C, H/stride, W/stride).
C16_LegacyShapeContract ==
  (op_dict = "DARTS_OPS" /\ pc \in {"applied", "apply_failed"}
   /\ args.C_in = args.C_out /\ args.stride \in {1, 2} /\ Divisible(x, args.stride))
    => /\ pc = "applied"
       /\ out.shape = <<x.shape[1], args.C_in,
                        x.shape[3] \div args.stride, x.shape[4] \div args.stride>>

Depthwise(l) == l.op = "Conv2d" /\ l.groups = l.cin /\ l.cout = l.cin

Pointwise(l) ==
  /\ l.op = "Conv2d" /\ l.k = <<1, 1>> /\ l.s = <<1, 1>> /\ l.p = <<0, 0>>
  /\ l.groups = 1

\* C18: in every SepConv the stride is applied only in the first depthwise
\* conv and the second has stride 1; each depthwise conv is grouped per
\* channel, preceded by a nonlinearity and followed by a 1x1 pointwise conv and
\* a normalization.
C18_SepConvLayout ==
  (pc \in {"constructed", "applied", "apply_failed"} /\ op.kind = "SepConv") =>
    LET l == op.layers IN
    /\ Len(l) = 8
    /\ l[1].op = "ReLU" /\ l[5].op = "ReLU"
    /\ Depthwise(l[2]) /\ l[2].s = <<args.stride, args.stride>>
    /\ Depthwise(l[6]) /\ l[6].s = <<1, 1>>
    /\ Pointwise(l[3]) /\ Pointwise(l[7])
    /\ l[3].cin = l[2].cout /\ l[7].cin = l[6].cout
    /\ l[4].op = "BatchNorm2d" /\ l[4].cin = l[3].cout
    /\ l[8].op = "BatchNorm2d" /\ l[8].cin = l[7].cout

C18_Witness ==
  /\ pc = "applied" /\ op.kind = "SepConv" /\ args.stride = 2
  /\ op.layers[2].s = <<2, 2>> /\ op.layers[6].s = <<1, 1>>
  /\ x.shape[3] = 2 /\ out.shape[3] = 1

PoolKeys == {"avg_pool_3x3", "max_pool_3x3"}

PoolClass(k) == IF k = "avg_pool_3x3" THEN "AvgPool2d" ELSE "MaxPool2d"

\* C19: the primary catalog's pooling keys build the pooling alone exactly
\* when C_in = C_out, and otherwise the pooling followed by a 1x1 projection
\* from C_in to C_out and a normalization over C_out; the pooling takes the
\* requested stride and the projection stride 1.
C19_PoolProjection ==
  (op_dict = "OPS" /\ key \in PoolKeys /\ pc \in {"constructed", "applied", "apply_failed"}) =>
    LET l == op.layers IN
    /\ l[1].op = PoolClass(key)
    /\ l[1].k = <<3, 3>> /\ l[1].p = <<1, 1>>
    /\ l[1].s = <<args.stride, args.stride>>
    /\ (Len(l) = 1) <=> (args.C_in = args.C_out)
    /\ args.C_in # args.C_out =>
         /\ Len(l) = 3
         /\ Pointwise(l[2]) /\ l[2].cin = args.C_in /\ l[2].cout = args.C_out
         /\ l[3].op = "BatchNorm2d" /\ l[3].cin = args.C_out
         /\ l[3].affine = args.affine

C19_Witness ==
  /\ op_dict = "OPS" /\ key = "max_pool_3x3" /\ pc = "applied"
  /\ args.C_in = 1 /\ args.C_out = 3 /\ args.stride = 2
  /\ Len(op.layers) = 3 /\ out.shape[2] = 3

\* A tensor whose every element names its own spatial position.
Labels(shape) == Tensor(shape, [p \in Positions(shape) |-> ToString(<<p[3], p[4]>>)])

\* C17: a FactorizedReduce with kernel 1, padding 0 and stride s: output
\* (i, j) of the first path reads the activated input at (s*i, s*j) and of the
\* second path at (s*i + 1, s*j + 1), a zero where that lies outside the
\* input; both paths have the same spatial size for every H, W >= 1, so the
\* concatenation never mismatches; one normalization is applied, to the
\* concatenation.
C17_FactorizedReducePaths ==
  (pc \in {"applied", "apply_failed"} /\ op.kind = "FactorizedReduce") =>
    LET l == op.layers
        s == op.stride
        lab == Labels(x.shape)
        A == ConvReads(l[2], lab)
        B == ConvReads(l[3], Crop(Pad(lab)))
    IN /\ l[2].k = <<1, 1>> /\ l[2].p = <<0, 0>> /\ l[2].s = <<s, s>>
       /\ l[3].k = <<1, 1>> /\ l[3].p = <<0, 0>> /\ l[3].s = <<s, s>>
       /\ Len(l) = 4
       /\ \A i \in 1..4 : (l[i].op = "BatchNorm2d") <=> (i = 4)
       /\ l[4].cin = l[2].cout + l[3].cout
       /\ (pc = "apply_failed") <=> (s < 1)
       /\ pc = "applied" =>
            /\ A.shape = B.shape
            /\ out.shape = <<x.shape[1], l[4].cin, A.shape[3], A.shape[4]>>
            /\ \A p \in Positions(A.shape) :
                 /\ A.data[p] = {ToString(<<s * p[3], s * p[4]>>)}
                 /\ B.data[p] =
                      IF s * p[3] + 1 < x.shape[3] /\ s * p[4] + 1 < x.shape[4]
                      THEN {ToString(<<s * p[3] + 1, s * p[4] + 1>>)}
                      ELSE {"zero"}

C17_Witness ==
  /\ pc = "applied" /\ op.kind = "FactorizedReduce" /\ op.stride = 2
  /\ x.shape[3] = 3 /\ x.shape[4] = 1
  /\ out.shape[3] = 2 /\ out.shape[4] = 1

ApplyStep == pc = "constructed" /\ pc' \in {"applied", "apply_failed"}

IsBN(i) == op.layers[i].op = "BatchNorm2d"

\* C11: apply leaves the instance's state unchanged (weights, normalization
\* scale and shift, running statistics) in training mode as well as in
\* evaluation mode; the state changes only in the optimizer step.
C11_ApplyLeavesState ==
  [][/\ ApplyStep => (params' = params /\ tracked' = tracked)
     /\ (pc # "looked" /\ (params' # params \/ tracked' # tracked)) =>
          (pc = "applied" /\ pc' = "constructed")]_vars

\* C11 (amended): apply leaves the parameters unchanged in both modes and
\* the running statistics unchanged in evaluation mode; in training mode a
\* completed apply updates the running statistics of every normalization
\* layer of the instance once, and a failed one those of the layers it ran;
\* the parameters change only in the optimizer step.
C11_ApplyLeavesStateAmended ==
  [][/\ ApplyStep =>
          /\ params' = params
          /\ Len(tracked') = Len(tracked)
          /\ ~training => tracked' = tracked
          /\ training => \A i \in 1..Len(tracked) :
               /\ ~IsBN(i) => tracked'[i] = tracked[i]
               /\ (IsBN(i) /\ pc' = "applied") => tracked'[i] = tracked[i] + 1
               /\ tracked'[i] \in {tracked[i], tracked[i] + 1}
     /\ (pc # "looked" /\ params' # params) =>
          (pc = "applied" /\ training /\ pc' = "constructed" /\ tracked' = tracked)
     /\ (pc # "looked" /\ tracked' # tracked) => (ApplyStep /\ training)]_vars

C11_Witness ==
  /\ pc = "applied" /\ op.kind = "SepConv" /\ training
  /\ tracked = <<0, 0, 0, 1, 0, 0, 0, 1>>

\* C12: apply never mutates its input tensor: after apply returns, the
\* caller's input holds the same values as before.
C12_InputUntouched ==
  pc \in {"applied", "apply_failed"} => x_after = x

C12_Witness ==
  /\ pc = "applied" /\ op.kind = "FactorizedReduce"
  /\ x # NoTensor /\ x_after = x /\ out # x
  /\ \A p \in Positions(x.shape) : x_after.data[p] = "fin"

\* What a call on input t returns when it runs alone on an instance whose
\* running statistics are running: the result of forward and, in evaluation
\* mode, the statistics its normalization layers normalise with.
Alone(t, running) ==
  [out |-> Forward(op, t),
   reads |-> IF training THEN << >>
             ELSE [j \in 1..Len(BNReached(op, t)) |->
                     <<BNReached(op, t)[j], running[BNReached(op, t)[j]]>>]]

AllReturned == \A th \in Threads : calls[th].state = "done"

\* The running statistics when the first of the calls began.
Before ==
  IF \A i \in 1..Len(tracked) : calls[1].before[i] <= calls[2].before[i]
  THEN calls[1].before ELSE calls[2].before

C15_CatalogSelectedOnce ==
  [][/\ op_dict' # op_dict => (op_dict = "" /\ net.cls = "" /\ op_dict' = cfg.ops)
     /\ (cfg.script = "cnn" /\ net.cls = "" /\ net'.cls # "") =>
          (op_dict \in Catalogs /\ op_dict = cfg.ops)
     /\ net.cls # "" => (op_dict' = op_dict /\ net'.op_dict = net.op_dict)]_vars

C15_Witness ==
  /\ cfg.script = "cnn" /\ cfg.ops = "DARTS_OPS" /\ op_dict = "DARTS_OPS"
  /\ net.cls = "NetworkCIFAR" /\ net.op_dict = "DARTS_OPS"
  /\ epoch = 1 /\ At("main", "epoch")

IsPrefix(a, b) == Len(a) <= Len(b) /\ a = SubSeq(b, 1, Len(a))

\* The order the claim gives to the steps of a mini-batch.
TrainOrder == <<"zero_grad", "forward", "loss", "backward", "clip", "step">>

\* The functions on the call stack.
Running == { mpc[i].fn : i \in 1..Len(mpc) }

\* C20: in train of both scripts the steps of each mini-batch run in the
\* order zero_grad, forward, loss, backward, gradient clipping, optimizer
\* step; the forward of the next batch starts only after the optimizer step,
\* so no parameter update overlaps a forward in flight; infer and evaluate
\* never run an optimizer step.
C20_TrainStepOrder ==
  /\ [](("train" \in Running) =>
          /\ IsPrefix(Top.log, TrainOrder)
          /\ net.inflight => (Top.log = <<"zero_grad", "forward">>
                              /\ opt_steps = epoch * cfg.queue_len + Top.batch))
  /\ [][opt_steps' # opt_steps =>
          /\ opt_steps' = opt_steps + 1
          /\ Running = {"main", "train"}
          /\ ~net.inflight /\ ~net'.inflight
          /\ Top.log = <<"zero_grad", "forward", "loss", "backward", "clip">>]_vars
  /\ [][(Running \cap {"infer", "evaluate"} # {}) =>
          (opt_steps' = opt_steps /\ (net'.weights # net.weights => At("evaluate", "load")))]_vars

C20_Witness ==
  /\ cfg.script = "darts" /\ cfg.queue_len = 2 /\ epoch = 1
  /\ "train" \in Running /\ Top.batch = 1 /\ net.inflight
  /\ opt_steps = 3

\* C21: for every dataset name of inp_channel_dict, the network main has
\* constructed was configured with in_channels = inp_channel_dict[dataset],
\* in both scripts and on every construction branch. (Violated by
\* src/cnn/train.py, which never passes DATASET_CHANNELS on.)
C21_InputChannels ==
  (net.cls # "" /\ cfg.dataset \in DOMAIN inp_channel_dict)
    => net.in_channels = Some(inp_channel_dict[cfg.dataset])

\* The part of C21 that holds: the network of src/darts/cnn/train.py.
C21_DartsInputChannels ==
  (net.cls # "" /\ cfg.script = "darts")
    => net.in_channels = Some(inp_channel_dict[cfg.dataset])

\* The larger of 0.0 and every valid_acc of the epochs completed so far, and
\* the number of the first epoch whose valid_acc equals it.
RunningMax ==
  CHOOSE m \in {0} \cup {valid_accs[i] : i \in 1..Len(valid_accs)} :
    \A i \in 1..Len(valid_accs) : valid_accs[i] <= m

FirstBest ==
  cfg.start_epoch - 1 +
    (CHOOSE i \in 1..Len(valid_accs) :
       /\ valid_accs[i] = RunningMax
       /\ \A j \in 1..(i - 1) : valid_accs[j] # RunningMax)

\* C23: after every completed epoch of src/cnn/train.py, best_valid_acc is
\* the maximum of 0.0 and the valid_acc of the epochs so far, best_epoch is
\* the first epoch that attained it, and weights.pt was last written in that
\* epoch. (Violated while no valid_acc has exceeded 0.0.)
C23_BestTracksMaximum ==
  (cfg.script = "cnn" /\ At("main", "epoch") /\ epoch >= 1)
    => /\ best_valid_acc = RunningMax
       /\ best_epoch = FirstBest
       /\ written # << >>
       /\ written[Len(written)] = best_epoch

\* What does hold of the bookkeeping of src/cnn/train.py: best_valid_acc is
\* the running maximum; once it is positive, best_epoch is the first epoch
\* that attained it and the last write of weights.pt; until then best_epoch
\* is 0 and weights.pt has not been written.
C23_RunningMaximum ==
  cfg.script = "cnn"
    => /\ best_valid_acc = RunningMax
       /\ RunningMax > 0 => /\ best_epoch = FirstBest
                            /\ written # << >>
                            /\ written[Len(written)] = best_epoch
       /\ RunningMax = 0 => best_epoch = 0 /\ written = << >> /\ weights_file = None

\* best_valid_acc never decreases, and weights.pt is written exactly by the
\* epochs whose valid_acc exceeds the best so far.
C23_SavedIffImproved ==
  [][cfg.script = "cnn"
       => /\ best_valid_acc' >= best_valid_acc
          /\ (written' # written) <=> (At("main", "save") /\ stats[1] > best_valid_acc)]_vars

\* C24: whenever the loop of src/cnn/train.py has finished and the final
\* evaluate() loads weights_file, the file has been written during the run.
\* (Violated with --epochs 0, and when no valid_acc exceeded 0.0.)
C24_LoadedFileWasWritten ==
  (At("evaluate", "load") /\ Top.arg = "weights_file")
    => (written # << >> /\ weights_file # None)

\* C25: in every epoch of both scripts the drop-path probability assigned to
\* the model lies in [0, args.drop_path_prob]. (Violated by src/cnn/train.py
\* with --start_epoch 2 or more.)
C25_DropPathBounded ==
  net.drop_path_prob # None
    => /\ 0 <= net.drop_path_prob[1][1]
       /\ net.drop_path_prob[1][1] <= net.drop_path_prob[1][2]

\* The part of C25 that holds: src/darts/cnn/train.py stays below the maximum.
C25_DartsDropPathBounded ==
  (cfg.script = "darts" /\ net.drop_path_prob # None)
    => /\ 0 <= net.drop_path_prob[1][1]
       /\ net.drop_path_prob[1][1] < net.drop_path_prob[1][2]

\* The indices a queue's sampler draws from, as a set.
Sampled(q) == {q.sampler[1][i] : i \in 1..Len(q.sampler[1])}

\* C22: with search_architecture and 0 <= train_proportion <= 1 the index
\* sets of the training and the validation queue are disjoint, together they
\* are {0, ..., num_train-1}, and their sizes are floor(train_proportion *
\* num_train) and the rest, also after the devanagari shuffle; without
\* search_architecture the training queue samples every index.
C22_QueuesPartition ==
  (qpc = "returned" /\ qargs.train_proportion[1] <= qargs.train_proportion[2])
    => LET n == qargs.num_train
           p == qargs.train_proportion
           m == Cardinality(Sampled(train_queue))
       IN IF qargs.search_architecture
          THEN /\ Sampled(train_queue) \cap Sampled(valid_queue) = {}
               /\ Sampled(train_queue) \cup Sampled(valid_queue) = 0..(n - 1)
               /\ m * p[2] <= p[1] * n /\ p[1] * n < (m + 1) * p[2]
               /\ Len(train_queue.sampler[1]) = m
               /\ Cardinality(Sampled(valid_queue)) = n - m
               /\ Len(valid_queue.sampler[1]) = n - m
               /\ valid_queue.data = "train"
          ELSE /\ Sampled(train_queue) = 0..(n - 1)
               /\ Len(train_queue.sampler[1]) = n

\* A shuffled devanagari set of three split into one training index and two
\* validation indices.
C22_Witness ==
  /\ qpc = "returned"
  /\ qargs = QueueArgs("devanagari", <<2, PropDen>>, TRUE, 3)
  /\ indices = <<2, 0, 1>>
  /\ Sampled(train_queue) = {2}
  /\ Sampled(valid_queue) = {0, 1}

====
